---- MODULE Spec2Model ----
(***************************************************************************)
(* Model of src/src/eventloop.rs: the EspEventLoop wrapper (System,        *)
(* User<Background>, User<Explicit>, User<Pinned>) over the native         *)
(* esp_event facility, its Arc-shared EventLoopHandle, the TAKEN           *)
(* singleton flag and EspSubscription teardown.                            *)
(***************************************************************************)
EXTENDS Integers, Sequences, FiniteSets, TLC

\* ---------------------------------------------------------------- bounds
MaxHandles == 2      \* Arc<EventLoopHandle> allocations over a run
MaxSubs    == 2      \* callback boxes (subscriptions) over a run
MaxStrong  == 3      \* cap on an Arc's strong count
QueueSize  == 1      \* queue_size handed to the facility
MaxCount   == 2      \* cap on a callback's invocation counter
MaxMoves   == 1      \* cap on the moves of one EspSubscription value
MaxPattern == 2      \* payload contents tried for each payload size

\* ------------------------------------------------- esp_err_t status codes
ESP_OK                == 0
ESP_FAIL              == -1
ESP_ERR_NO_MEM        == 257
ESP_ERR_INVALID_STATE == 259
ESP_ERR_NOT_FOUND     == 261
ESP_ERR_TIMEOUT       == 263

Statuses == {ESP_OK, ESP_FAIL, ESP_ERR_NO_MEM, ESP_ERR_INVALID_STATE,
             ESP_ERR_NOT_FOUND, ESP_ERR_TIMEOUT}

\* ------------------------------------------------------------ value sets
Threads   == {"t1", "t2"}
NoThread  == "none"
Handles   == 1..MaxHandles
SubIds    == 1..MaxSubs
Loops     == 0..MaxHandles        \* 0: the default loop; h: the loop of handle h
DefaultLoop == 0
Sources   == {1, 2}
EventIds  == {0, 1}
ANY_ID    == -1
Events    == {e \in [source : Sources, event_id : EventIds] :
                e.source = 1 \/ e.event_id = 0}
Waits     == {"None", "Zero"}
Modes     == {"System", "Background", "Explicit", "Pinned"}
UserModes == {"Background", "Explicit", "Pinned"}

VARIABLES
    taken,     \* the value guarded by TAKEN
    lock,      \* the thread holding TAKEN's mutex, or NoThread
    hnd,       \* Arc<EventLoopHandle<T>> allocations
    nextH,     \* number of Arc allocations made so far
    native,    \* the facility's loops
    regs,      \* the facility's handler registrations, by handler instance
    subs,      \* EspSubscription values
    nextS,     \* number of EspSubscription values made so far
    storage,   \* callback boxes currently allocated
    count,     \* per callback: how many times it was invoked
    th,        \* per thread: where it is inside a multi-step operation
    last,      \* what the step just taken returned, or which context ran callbacks in it
    aborted    \* a panic (unwrap on Err) has ended the process

vars == <<taken, lock, hnd, nextH, native, regs, subs, nextS, storage, count,
          th, last, aborted>>

NoHandle == [state |-> "none", mode |-> "System", strong |-> 0, clones |-> 0,
             pin |-> NoThread]
NoLoop   == [exists |-> FALSE, task |-> FALSE, queue |-> <<>>,
             created |-> 0, deleted |-> 0]
\* at: where the EspSubscription value is (0: nowhere yet; it is returned to
\* place 1 and each move takes it to the next place)
NoSub    == [state |-> "none", h |-> 0, source |-> 0, event_id |-> 0,
             at |-> 0]
Idle     == [pc |-> "idle", h |-> 0, s |-> 0, w |-> "None"]
NoEvent  == [source |-> 0, event_id |-> 0]
\* last: op, the operation; called/st, whether it called the facility and the
\* status it got; res/code, the Result it returned; for "dispatch": ev, the
\* event taken from the queue, called, whether any callback ran, on, where
\* h, for post and isr_post: the handle of the EspEventLoop posted through
NoResult == [op |-> "none", called |-> FALSE, st |-> ESP_OK, res |-> "Ok",
             code |-> 0, on |-> NoThread, ev |-> NoEvent, h |-> 0]

Init ==
    /\ taken = FALSE
    /\ lock = NoThread
    /\ hnd = [h \in Handles |-> NoHandle]
    /\ nextH = 0
    /\ native = [l \in Loops |-> NoLoop]
    /\ regs = {}
    /\ subs = [s \in SubIds |-> NoSub]
    /\ nextS = 0
    /\ storage = {}
    /\ count = [s \in SubIds |-> 0]
    /\ th = [t \in Threads |-> Idle]
    /\ last = NoResult
    /\ aborted = FALSE

\* ------------------------------------------------------- wrapper helpers

\* faulty variant, for sensitivity: only negative codes count as errors
esp_negative_only(status) ==
    IF status >= ESP_OK THEN [ok |-> TRUE, code |-> 0]
    ELSE [ok |-> FALSE, code |-> status]

\* esp!(status): Ok(()) for ESP_OK, Err(EspError(status)) otherwise
esp(status) ==
    IF status = ESP_OK THEN [ok |-> TRUE, code |-> 0]
    ELSE [ok |-> FALSE, code |-> status]

\* EspEventLoopType::is_system
is_system(mode) == mode = "System"

\* From<&BackgroundLoopConfiguration> for esp_event_loop_args_t
BackgroundArgs == [queue_size |-> QueueSize, task_name |-> TRUE]

\* faulty variant, for sensitivity: the conversion names a task
ExplicitArgs_with_task == [queue_size |-> QueueSize, task_name |-> TRUE]

\* From<&ExplicitLoopConfiguration> for esp_event_loop_args_t:
\* task_name comes from Default::default(), a null pointer
ExplicitArgs == [queue_size |-> QueueSize, task_name |-> FALSE]

\* the conversion each EventLoopHandle<User<_>>::new applies to its conf
ArgsOf(mode) == IF mode = "Background" THEN BackgroundArgs ELSE ExplicitArgs

\* faulty variant, for sensitivity: every call goes to the global entry points
LoopOf_default(h) == DefaultLoop

\* the native loop an EspEventLoop<T> / EspSubscription<T> addresses:
\* the global entry points when T::is_system(), else user.0
LoopOf(h) == IF is_system(hnd[h].mode) THEN DefaultLoop ELSE h

\* faulty variant, for sensitivity: every loop type is Send and Sync
OnThread_any(t, h) == TRUE

\* a value that is not Send/Sync stays on the thread that made it
OnThread(t, h) == hnd[h].pin = NoThread \/ hnd[h].pin = t

\* EspEventLoop values of h not mutably borrowed by a running spin
Spinning(h) == {u \in Threads : th[u].pc = "spin" /\ th[u].h = h}
FreeClones(h) == hnd[h].clones - Cardinality(Spinning(h))

\* thread t can call a method on some EspEventLoop value sharing handle h
CanUse(t, h) ==
    /\ th[t].pc = "idle"
    /\ hnd[h].state = "live"
    /\ FreeClones(h) > 0
    /\ OnThread(t, h)

\* some thread can: the calls that are one step leave no trace of the caller
Usable(h) == \E t \in Threads : CanUse(t, h)

Ret(op, called, st, res, code) ==
    [op |-> op, called |-> called, st |-> st, res |-> res, code |-> code,
     on |-> NoThread, ev |-> NoEvent, h |-> 0]

\* ------------------------------------------- the native facility (esp_event)
\* What the facility may answer to each call the wrapper makes, and what the
\* call does to the facility's loops, queues and registrations.

\* esp_event_loop_create_default(): one default loop at most; may be refused
create_default_statuses ==
    IF native[DefaultLoop].exists THEN {ESP_ERR_INVALID_STATE}
    ELSE {ESP_OK, ESP_ERR_NO_MEM}

\* esp_event_loop_create(conf, &handle)
create_statuses == {ESP_OK, ESP_ERR_NO_MEM}

\* a created loop: a dedicated task exists iff args.task_name is not null
Created(l, args) ==
    [native EXCEPT ![l] = [exists |-> TRUE, task |-> args.task_name,
                           queue |-> <<>>, created |-> @.created + 1,
                           deleted |-> @.deleted]]

\* the default loop always runs its own task
DefaultArgs == [queue_size |-> QueueSize, task_name |-> TRUE]

\* esp_event_loop_delete_default() / esp_event_loop_delete(handle)
delete_status(l) ==
    IF native[l].exists THEN ESP_OK ELSE ESP_ERR_INVALID_STATE

Deleted(l) ==
    [native EXCEPT ![l] = [exists |-> FALSE, task |-> FALSE, queue |-> <<>>,
                           created |-> @.created, deleted |-> @.deleted + 1]]

\* esp_event_handler_instance_register[_with]
register_statuses(l) ==
    IF native[l].exists THEN {ESP_OK, ESP_ERR_NO_MEM}
    ELSE {ESP_ERR_INVALID_STATE}

\* esp_event_handler_instance_unregister[_with]
unregister_status(l, source, event_id, inst) ==
    IF \E r \in regs : /\ r.inst = inst /\ r.loop = l
                       /\ r.source = source /\ r.event_id = event_id
    THEN ESP_OK ELSE ESP_ERR_NOT_FOUND

\* esp_event_post[_to]: accepted while the queue has room; a full queue times
\* out after the wait (never, when the wait is portMAX_DELAY); may be refused
post_statuses(l, wait) ==
    IF ~native[l].exists THEN {ESP_ERR_INVALID_STATE}
    ELSE {ESP_FAIL}
         \cup (IF Len(native[l].queue) < QueueSize THEN {ESP_OK} ELSE {})
         \cup (IF Len(native[l].queue) >= QueueSize /\ wait # "None"
               THEN {ESP_ERR_TIMEOUT} ELSE {})

\* esp_event_isr_post[_to]: never waits; ESP_FAIL for a full queue
isr_post_statuses(l) ==
    IF ~native[l].exists THEN {ESP_ERR_INVALID_STATE}
    ELSE {ESP_ERR_TIMEOUT}
         \cup (IF Len(native[l].queue) < QueueSize THEN {ESP_OK}
               ELSE {ESP_FAIL})

Enqueued(l, e) == [native EXCEPT ![l].queue = Append(@, e)]

\* faulty variant, for sensitivity: the facility knows no wildcard id
Matching_exact(l, e) ==
    {r.inst : r \in {x \in regs : /\ x.loop = l
                                  /\ x.source = e.source
                                  /\ x.event_id = e.event_id}}

\* the registrations of loop l an event is dispatched to
Matching(l, e) ==
    {r.inst : r \in {x \in regs : /\ x.loop = l
                                  /\ x.source = e.source
                                  /\ x.event_id \in {e.event_id, ANY_ID}}}

\* --------------------------------------------- EventLoopHandle<System>::new

\* let mut taken = TAKEN.lock();
new_System_lock(t) ==
    /\ th[t].pc = "idle"
    /\ nextH < MaxHandles
    /\ lock = NoThread
    /\ lock' = t
    /\ th' = [th EXCEPT ![t].pc = "new_locked"]
    /\ last' = NoResult
    /\ UNCHANGED <<taken, hnd, nextH, native, regs, subs, nextS, storage,
                   count, aborted>>

\* faulty variant, for sensitivity: the flag is set before the facility is asked
taken_after_refusal_set == TRUE

\* esp!(esp_event_loop_create_default())?; returns before *taken = true
taken_after_refusal == taken

\* the rest of new, then Arc::new in EspEventLoop<System>::new; the guard is
\* released on every return
new_System(t) ==
    /\ th[t].pc = "new_locked"
    /\ lock' = NoThread
    /\ th' = [th EXCEPT ![t] = Idle]
    /\ IF taken /\ ~esp(ESP_ERR_INVALID_STATE).ok
       THEN /\ last' = Ret("new_System", FALSE, ESP_OK, "Err",
                           esp(ESP_ERR_INVALID_STATE).code)
            /\ UNCHANGED <<taken, hnd, nextH, native>>
       ELSE \E st \in create_default_statuses :
            /\ esp(st).ok => nextH < MaxHandles
            /\ native' = IF st = ESP_OK THEN Created(DefaultLoop, DefaultArgs)
                         ELSE native
            /\ IF esp(st).ok
               THEN /\ taken' = TRUE
                    /\ nextH' = nextH + 1
                    /\ hnd' = [hnd EXCEPT ![nextH + 1] =
                                 [state |-> "live", mode |-> "System",
                                  strong |-> 1, clones |-> 1,
                                  pin |-> NoThread]]
                    /\ last' = Ret("new_System", TRUE, st, "Ok", 0)
               ELSE /\ last' = Ret("new_System", TRUE, st, "Err", esp(st).code)
                    /\ taken' = taken_after_refusal
                    /\ UNCHANGED <<hnd, nextH>>
    /\ UNCHANGED <<regs, subs, nextS, storage, count, aborted>>

\* ----------------------------------------- EventLoopHandle<User<T>>::new
new_User(t, mode) ==
    /\ th[t].pc = "idle"
    /\ nextH < MaxHandles
    /\ \E st \in create_statuses :
         IF esp(st).ok
         THEN /\ native' = IF st = ESP_OK
                           THEN Created(nextH + 1, ArgsOf(mode))
                           ELSE native
              /\ nextH' = nextH + 1
              /\ hnd' = [hnd EXCEPT ![nextH + 1] =
                           [state |-> "live", mode |-> mode, strong |-> 1,
                            clones |-> 1,
                            pin |-> IF mode = "Pinned" THEN t ELSE NoThread]]
              /\ last' = Ret("new_User", TRUE, st, "Ok", 0)
         ELSE /\ last' = Ret("new_User", TRUE, st, "Err", esp(st).code)
              /\ UNCHANGED <<native, nextH, hnd>>
    /\ UNCHANGED <<taken, lock, regs, subs, nextS, storage, count, th,
                   aborted>>

\* ------------------------------------------------ Clone for EspEventLoop
clone(h) ==
    /\ Usable(h)
    /\ hnd[h].strong < MaxStrong
    /\ hnd' = [hnd EXCEPT ![h].strong = @ + 1, ![h].clones = @ + 1]
    /\ last' = NoResult
    /\ UNCHANGED <<taken, lock, nextH, native, regs, subs, nextS, storage,
                   count, th, aborted>>

\* ---------------------------------- dropping an Arc<EventLoopHandle<T>>
\* where thread t continues once the Arc it held is released: in the rest of
\* a subscription's drop (s # 0), or nowhere
After(s) == IF s = 0 THEN Idle
            ELSE [pc |-> "sdrop_free", h |-> 0, s |-> s, w |-> "None"]

\* faulty variant, for sensitivity: the handle is torn down whenever a reference is released
last_reference_any(n) == TRUE

\* Drop for EventLoopHandle<T> runs when the Arc releases its last reference:
\* n is the strong count left
last_reference(n) == n = 0

\* Arc::drop of one reference to H[h] (H: hnd with the caller's own changes),
\* and Drop for EventLoopHandle<T> when it was the last one.  The System
\* handle's drop starts by waiting for TAKEN's mutex.
ArcDrop(t, h, s, H) ==
    LET n == H[h].strong - 1
        l == LoopOf(h)
    IN  IF ~last_reference(n)
        THEN /\ hnd' = [H EXCEPT ![h].strong = n]
             /\ th' = [th EXCEPT ![t] = After(s)]
             /\ UNCHANGED <<native, regs, aborted>>
        ELSE IF is_system(H[h].mode)
        THEN /\ hnd' = [H EXCEPT ![h].strong = n, ![h].state = "dropping"]
             /\ th' = [th EXCEPT ![t] =
                          [pc |-> "hdrop_wait", h |-> h, s |-> s, w |-> "None"]]
             /\ UNCHANGED <<native, regs, aborted>>
        ELSE IF esp(delete_status(l)).ok
        THEN /\ hnd' = [H EXCEPT ![h].strong = n, ![h].state = "dead"]
             /\ native' = IF delete_status(l) = ESP_OK THEN Deleted(l)
                          ELSE native
             /\ regs' = {r \in regs : r.loop # l}
             /\ th' = [th EXCEPT ![t] = After(s)]
             /\ UNCHANGED aborted
        ELSE /\ hnd' = [H EXCEPT ![h].strong = n, ![h].state = "dropping"]
             /\ aborted' = TRUE
             /\ UNCHANGED <<native, regs, th>>

\* Drop for EventLoopHandle<System>: let mut taken = TAKEN.lock();
drop_EventLoopHandle_lock(t) ==
    /\ th[t].pc = "hdrop_wait"
    /\ lock = NoThread
    /\ lock' = t
    /\ th' = [th EXCEPT ![t].pc = "hdrop_locked"]
    /\ last' = NoResult
    /\ UNCHANGED <<taken, hnd, nextH, native, regs, subs, nextS, storage,
                   count, aborted>>

\* faulty variant, for sensitivity: the flag is left as it was
taken_after_drop_kept == taken

\* *taken = false;
taken_after_drop == FALSE

\* esp!(esp_event_loop_delete_default()).unwrap(); *taken = false;
drop_EventLoopHandle_System(t) ==
    /\ th[t].pc = "hdrop_locked"
    /\ IF esp(delete_status(DefaultLoop)).ok
       THEN /\ native' = IF delete_status(DefaultLoop) = ESP_OK
                         THEN Deleted(DefaultLoop) ELSE native
            /\ regs' = {r \in regs : r.loop # DefaultLoop}
            /\ taken' = taken_after_drop
            /\ lock' = NoThread
            /\ hnd' = [hnd EXCEPT ![th[t].h].state = "dead"]
            /\ th' = [th EXCEPT ![t] = After(th[t].s)]
            /\ UNCHANGED aborted
       ELSE /\ aborted' = TRUE
            /\ UNCHANGED <<native, regs, taken, lock, hnd, th>>
    /\ last' = NoResult
    /\ UNCHANGED <<nextH, subs, nextS, storage, count>>

\* dropping one EspEventLoop value
drop_EspEventLoop(t, h) ==
    /\ CanUse(t, h)
    /\ ArcDrop(t, h, 0, [hnd EXCEPT ![h].clones = @ - 1])
    /\ last' = NoResult
    /\ UNCHANGED <<taken, lock, nextH, subs, nextS, storage, count>>

\* ------------------------------------------------ EspEventLoop::subscribe_raw
\* The callback is boxed first (box s); a refused registration returns through
\* `?`, which drops the box; only Ok builds the EspSubscription and clones
\* the Arc.
\* faulty variant, for sensitivity: the context is the address of the variable
\* that holds the outer Box, inside the value at place `at`
UnsafeCallback_from_variable(s, at) == [region |-> "value", box |-> s, at |-> at]

\* UnsafeCallback::from(&mut callback).as_ptr(): boxed.as_mut() is the address
\* of the inner Box, the heap allocation of the outer Box<Box<dyn FnMut>>;
\* it does not depend on where the outer Box value is
UnsafeCallback_from(s, at) == [region |-> "heap", box |-> s, at |-> 0]

\* faulty variant, for sensitivity: the subscription takes no share of the handle
subscription_strong_none(n) == n

\* event_loop_handle: self.0.clone() -- the subscription's own strong reference
subscription_strong(n) == n + 1

\* faulty variant, for sensitivity: the box is leaked on the early return
dropped_box_leaked(boxed, s) == boxed

\* the local `callback` box going out of scope on the early return
dropped_box(boxed, s) == boxed \ {s}

subscribe_raw(h, source, event_id) ==
    /\ Usable(h)
    /\ nextS < MaxSubs
    /\ hnd[h].strong < MaxStrong
    /\ LET s == nextS + 1
           l == LoopOf(h)
           boxed == storage \cup {s}
       IN \E st \in register_statuses(l) :
            /\ regs' = IF st = ESP_OK
                       THEN regs \cup {[inst |-> s, loop |-> l,
                                        source |-> source,
                                        event_id |-> event_id,
                                        ctx |-> UnsafeCallback_from(s, 0)]}
                       ELSE regs
            /\ IF esp(st).ok
               THEN /\ subs' = [subs EXCEPT ![s] =
                                  [state |-> "live", h |-> h,
                                   source |-> source, event_id |-> event_id,
                                   at |-> 1]]
                    /\ hnd' = [hnd EXCEPT ![h].strong = subscription_strong(@)]
                    /\ storage' = boxed
                    /\ nextS' = s
                    /\ last' = Ret("subscribe", TRUE, st, "Ok", 0)
               ELSE /\ storage' = dropped_box(boxed, s)
                    /\ last' = Ret("subscribe", TRUE, st, "Err", esp(st).code)
                    /\ UNCHANGED <<subs, hnd, nextS>>
    /\ UNCHANGED <<taken, lock, nextH, native, count, th, aborted>>

\* ---------------------------------------------------- EspEventLoop::post_raw
\* faulty variant, for sensitivity: both soft statuses are declined
post_result_unified(st) ==
    IF st \in {ESP_ERR_TIMEOUT, ESP_FAIL} THEN [res |-> "False", code |-> 0]
    ELSE IF esp(st).ok THEN [res |-> "True", code |-> 0]
    ELSE [res |-> "Err", code |-> esp(st).code]

\* the tail of post_raw: how the facility's status becomes the result
post_result(st) ==
    IF st = ESP_ERR_TIMEOUT THEN [res |-> "False", code |-> 0]
    ELSE IF esp(st).ok THEN [res |-> "True", code |-> 0]
    ELSE [res |-> "Err", code |-> esp(st).code]

post_raw(h, e, wait) ==
    /\ Usable(h)
    /\ \E st \in post_statuses(LoopOf(h), wait) :
         /\ native' = IF st = ESP_OK THEN Enqueued(LoopOf(h), e) ELSE native
         /\ last' = [Ret("post", TRUE, st, post_result(st).res,
                         post_result(st).code) EXCEPT !.h = h]
    /\ UNCHANGED <<taken, lock, hnd, nextH, regs, subs, nextS, storage,
                   count, th, aborted>>

\* ------------------------------------------------ EspEventLoop::isr_post_raw
\* faulty variant, for sensitivity: isr_post uses post's sentinel
isr_post_result_timeout(st) ==
    IF st = ESP_ERR_TIMEOUT THEN [res |-> "False", code |-> 0]
    ELSE IF esp(st).ok THEN [res |-> "True", code |-> 0]
    ELSE [res |-> "Err", code |-> esp(st).code]

\* the tail of isr_post_raw
isr_post_result(st) ==
    IF st = ESP_FAIL THEN [res |-> "False", code |-> 0]
    ELSE IF esp(st).ok THEN [res |-> "True", code |-> 0]
    ELSE [res |-> "Err", code |-> esp(st).code]

isr_post_raw(h, e) ==
    /\ Usable(h)
    /\ \E st \in isr_post_statuses(LoopOf(h)) :
         /\ native' = IF st = ESP_OK THEN Enqueued(LoopOf(h), e) ELSE native
         /\ last' = [Ret("isr_post", TRUE, st, isr_post_result(st).res,
                         isr_post_result(st).code) EXCEPT !.h = h]
    /\ UNCHANGED <<taken, lock, hnd, nextH, regs, subs, nextS, storage,
                   count, th, aborted>>

\* ------------------------------------------------------- event dispatch
\* The facility takes the head of loop l's queue and calls the trampoline
\* (EspSubscription::handle) for every matching registration, in order of
\* registration.  `who` is the executing context.  The boxed closure ends in
\* callback(data).unwrap(): f is the callback that returns Err (0: none),
\* which panics there.  In last, res and code tell what the callbacks
\* returned: "Err" and f when callback f failed.

\* faulty variant, for sensitivity: the callback's failure is dropped
unwrap_panics_never(failed) == FALSE

\* callback(data).unwrap() panics exactly when the callback returned Err; a
\* panic in the extern "C" trampoline ends the process
unwrap_panics(failed) == failed

Dispatch(l, who, f) ==
    LET e   == Head(native[l].queue)
        m   == Matching(l, e)
        ran == IF ~unwrap_panics(f # 0) THEN m ELSE {s \in m : s <= f}
    IN  /\ native[l].exists
        /\ native[l].queue # <<>>
        /\ f \in m \cup {0}
        /\ \A s \in m : count[s] < MaxCount
        /\ native' = [native EXCEPT ![l].queue = Tail(@)]
        /\ count' = [s \in SubIds |-> IF s \in ran THEN count[s] + 1
                                      ELSE count[s]]
        /\ last' = [NoResult EXCEPT !.op = "dispatch", !.called = (ran # {}),
                                     !.on = who, !.ev = e,
                                     !.res = IF f = 0 THEN "Ok" ELSE "Err",
                                     !.code = f]
        /\ aborted' = unwrap_panics(f # 0)

\* the loop's own task (default loop, Background loops)
task_dispatch(l, f) ==
    /\ native[l].task
    /\ Dispatch(l, "task", f)
    /\ UNCHANGED <<taken, lock, hnd, nextH, regs, subs, nextS, storage, th>>

\* ------------------------------ event_bus::Spin for EspEventLoop<User<T>>
\* spin calls esp_event_loop_run(handle, ticks) on the calling thread
spin(t, h, wait) ==
    /\ CanUse(t, h)
    /\ hnd[h].mode \in UserModes
    /\ th' = [th EXCEPT ![t] = [pc |-> "spin", h |-> h, s |-> 0,
                                 w |-> wait]]
    /\ last' = NoResult
    /\ UNCHANGED <<taken, lock, hnd, nextH, native, regs, subs, nextS,
                   storage, count, aborted>>

\* esp_event_loop_run delivers one queued event
spin_dispatch(t, f) ==
    /\ th[t].pc = "spin"
    /\ Dispatch(th[t].h, t, f)
    /\ UNCHANGED <<taken, lock, hnd, nextH, regs, subs, nextS, storage, th>>

\* faulty variant, for sensitivity: the facility reports used-up ticks
run_status_timeout == ESP_ERR_TIMEOUT

\* what esp_event_loop_run returns: ESP_OK, also when its ticks are used up
\* with events left in the queue
run_status == ESP_OK

\* esp_event_loop_run returns when its ticks are used up (never, for
\* portMAX_DELAY), whether or not the queue is drained
spin_return(t) ==
    /\ th[t].pc = "spin"
    /\ th[t].w # "None"
    /\ th' = [th EXCEPT ![t] = Idle]
    /\ last' = Ret("spin", TRUE, run_status,
                   IF esp(run_status).ok THEN "Ok" ELSE "Err",
                   esp(run_status).code)
    /\ UNCHANGED <<taken, lock, hnd, nextH, native, regs, subs, nextS,
                   storage, count, aborted>>

\* --------------------------------------------------- Drop for EspSubscription
\* faulty variant, for sensitivity: the handler is left registered
unregistered_not(s) == regs

\* the facility's registrations once esp_event_handler_instance_unregister[_with]
\* has returned ESP_OK for handler instance s
unregistered(s) == {r \in regs : r.inst # s}

\* faulty variant, for sensitivity: only the callback box is dropped
fields_drop_from_callback == "sdrop_free"

\* after Drop::drop the fields are dropped in declaration order, beginning
\* with event_loop_handle
fields_drop_from == "sdrop_arc"

\* faulty variant, for sensitivity: unregister is asked for every id
unregister_event_id_any(s) == ANY_ID

\* the event_id argument of the unregister call: self.event_id
unregister_event_id(s) == subs[s].event_id

\* drop(): unregister through the entry point of the loop's kind, unwrap; a
\* panic leaves the thread inside the drop
drop_EspSubscription(t, s) ==
    /\ th[t].pc = "idle"
    /\ subs[s].state = "live"
    /\ OnThread(t, subs[s].h)
    /\ LET st == unregister_status(LoopOf(subs[s].h), subs[s].source,
                                   unregister_event_id(s), s)
       IN IF esp(st).ok
          THEN /\ regs' = IF st = ESP_OK THEN unregistered(s) ELSE regs
               /\ subs' = [subs EXCEPT ![s].state = "dropping"]
               /\ th' = [th EXCEPT ![t] =
                           [pc |-> fields_drop_from, h |-> subs[s].h, s |-> s,
                            w |-> "None"]]
               /\ UNCHANGED aborted
          ELSE /\ aborted' = TRUE
               /\ th' = [th EXCEPT ![t] =
                           [pc |-> "sdrop_panic", h |-> subs[s].h, s |-> s,
                            w |-> "None"]]
               /\ UNCHANGED <<regs, subs>>
    /\ last' = NoResult
    /\ UNCHANGED <<taken, lock, hnd, nextH, native, nextS, storage, count>>

\* then the fields drop in declaration order: event_loop_handle first
drop_EspSubscription_handle(t) ==
    /\ th[t].pc = "sdrop_arc"
    /\ ArcDrop(t, th[t].h, th[t].s, hnd)
    /\ last' = NoResult
    /\ UNCHANGED <<taken, lock, nextH, subs, nextS, storage, count>>

\* ... and _callback, the boxed closure, last
drop_EspSubscription_callback(t) ==
    /\ th[t].pc = "sdrop_free"
    /\ storage' = storage \ {th[t].s}
    /\ subs' = [subs EXCEPT ![th[t].s].state = "dropped"]
    /\ th' = [th EXCEPT ![t] = Idle]
    /\ last' = NoResult
    /\ UNCHANGED <<taken, lock, hnd, nextH, native, regs, nextS, count,
                   aborted>>

\* ------------------------------------------ moving an EspSubscription value
\* A move copies the fields to a new place: the Arc, the handler instance, the
\* filter and the outer Box (a pointer); the heap allocations stay.
move_EspSubscription(s) ==
    /\ subs[s].state = "live"
    /\ subs[s].at <= MaxMoves
    /\ \E t \in Threads : th[t].pc = "idle" /\ OnThread(t, subs[s].h)
    /\ subs' = [subs EXCEPT ![s].at = @ + 1]
    /\ last' = NoResult
    /\ UNCHANGED <<taken, lock, hnd, nextH, native, regs, nextS, storage,
                   count, th, aborted>>

\* ------------------------------------------------------------- payloads
\* A payload is a value of a Copy type P, seen as its size_of::<P>() bytes.
PayloadSizes == {0, 1, 4, 64, 4096}
Patterns == 0..MaxPattern
Bytes(k, n) == [i \in 1..n |-> (i * (k + 1) + k) % 256]
Payloads == {Bytes(k, n) : k \in Patterns, n \in PayloadSizes}

\* a pointer: null, or the address of some bytes
NullPtr == [null |-> TRUE, bytes |-> <<>>]
PtrTo(bytes) == [null |-> FALSE, bytes |-> bytes]

\* EspEventPostData::new(source, event_id, &payload): a reference is never
\* null, also for a zero-sized P; payload_len is size_of::<P>()
EspEventPostData_new(source, event_id, payload) ==
    [source |-> source, event_id |-> event_id, payload |-> PtrTo(payload),
     payload_len |-> Len(payload)]

\* esp_event_post[_to](.., event_data, event_data_size, ..): the facility
\* queues its own copy of the bytes, and no data at all (a null pointer)
\* when the pointer is null or the size is 0.  `posted` is not part of the
\* queued event: it remembers the value for comparison.
esp_event_queued(data) ==
    [source |-> data.source, event_id |-> data.event_id,
     event_data |-> IF ~data.payload.null /\ data.payload_len # 0
                    THEN PtrTo(SubSeq(data.payload.bytes, 1, data.payload_len))
                    ELSE NullPtr,
     posted |-> data.payload.bytes]

\* EspSubscription::handle: the FetchData view of a delivered event
handle(e) ==
    [source |-> e.source, event_id |-> e.event_id, payload |-> e.event_data]

\* EspEventFetchData::as_payload::<P>(), n = size_of::<P>():
\* (self.payload as *const P).as_ref().unwrap() panics on a null pointer,
\* *payload copies the n bytes out
as_payload(data, n) ==
    IF data.payload.null THEN [panic |-> TRUE, bytes |-> <<>>]
    ELSE [panic |-> FALSE, bytes |-> SubSeq(data.payload.bytes, 1, n)]

\* Postbox::post(payload, wait): post_raw(&(&payload).into(), wait)
post_payload(h, payload, wait) ==
    post_raw(h, esp_event_queued(EspEventPostData_new(1, 0, payload)), wait)

\* the loop's task delivers the head of the queue to callbacks that read the
\* payload back with as_payload::<P>() and return Ok; in last, read is what
\* they got
task_dispatch_payload(l) ==
    LET e == Head(native[l].queue)
        m == Matching(l, e)
        r == as_payload(handle(e), Len(e.posted))
    IN  /\ native[l].exists
        /\ native[l].task
        /\ native[l].queue # <<>>
        /\ m # {}
        /\ \A s \in m : count[s] < MaxCount
        /\ native' = [native EXCEPT ![l].queue = Tail(@)]
        /\ count' = [s \in SubIds |->
                       IF s \in m /\ (~r.panic \/ \A o \in m : s <= o)
                       THEN count[s] + 1 ELSE count[s]]
        /\ last' = [op |-> "callback", called |-> TRUE, st |-> ESP_OK,
                    res |-> IF r.panic THEN "Panic" ELSE "Ok", code |-> 0,
                    on |-> "task", ev |-> e, h |-> 0, read |-> r.bytes]
        /\ aborted' = r.panic
        /\ UNCHANGED <<taken, lock, hnd, nextH, regs, subs, nextS, storage,
                       th>>

\* ------------------------------------------------- misuse of the facility
\* Code outside this module deletes the default loop, which the facility lets
\* anyone do, while the wrapper still uses it; the facility drops the
\* loop's registrations with it.
foreign_delete_default ==
    /\ native[DefaultLoop].exists
    /\ native' = Deleted(DefaultLoop)
    /\ regs' = {r \in regs : r.loop # DefaultLoop}
    /\ last' = NoResult
    /\ UNCHANGED <<taken, lock, hnd, nextH, subs, nextS, storage, count, th,
                   aborted>>

\* --------------------------------------------------------------- the system
SubSources == {1}
Filters == {0, ANY_ID}

\* the TAKEN-guarded steps of the System handle
SystemSteps ==
    \/ \E t \in Threads : new_System(t)
    \/ \E t \in Threads : drop_EventLoopHandle_lock(t)
    \/ \E t \in Threads : drop_EventLoopHandle_System(t)

\* sharing and releasing a handle
ShareSteps ==
    \/ \E h \in Handles : clone(h)
    \/ \E t \in Threads, h \in Handles : drop_EspEventLoop(t, h)
    \/ \E h \in Handles, src \in SubSources, id \in Filters :
         subscribe_raw(h, src, id)
    \/ \E t \in Threads, s \in SubIds : drop_EspSubscription(t, s)
    \/ \E t \in Threads : drop_EspSubscription_handle(t)
    \/ \E t \in Threads : drop_EspSubscription_callback(t)

\* posting and delivering events
EventSteps ==
    \/ \E h \in Handles, e \in Events, w \in Waits : post_raw(h, e, w)
    \/ \E h \in Handles, e \in Events : isr_post_raw(h, e)
    \/ \E l \in Loops, f \in SubIds \cup {0} : task_dispatch(l, f)
    \/ \E t \in Threads, h \in Handles, w \in Waits : spin(t, h, w)
    \/ \E t \in Threads, f \in SubIds \cup {0} : spin_dispatch(t, f)
    \/ \E t \in Threads : spin_return(t)

\* every operation, on up to MaxHandles loops of any kind
Next ==
    /\ ~aborted
    /\ \/ \E t \in Threads : new_System_lock(t)
       \/ \E t \in Threads, mode \in UserModes : new_User(t, mode)
       \/ SystemSteps
       \/ ShareSteps
       \/ EventSteps

Spec == Init /\ [][Next]_vars

\* programs that only create System loops, and post nothing through them
NextSingleton ==
    /\ ~aborted
    /\ \/ \E t \in Threads : new_System_lock(t)
       \/ SystemSteps
       \/ ShareSteps

SpecSingleton == Init /\ [][NextSingleton]_vars

\* programs that create, share and release loops of every kind, and post
\* nothing
NextLife ==
    /\ ~aborted
    /\ \/ \E t \in Threads : new_System_lock(t)
       \/ \E t \in Threads, mode \in UserModes : new_User(t, mode)
       \/ SystemSteps
       \/ ShareSteps

SpecLife == Init /\ [][NextLife]_vars

\* programs that create one loop, of any kind, and do everything with it
NoLoopYet == nextH = 0 /\ lock = NoThread

NextOneLoop ==
    /\ ~aborted
    /\ \/ \E t \in Threads : NoLoopYet /\ new_System_lock(t)
       \/ \E t \in Threads, mode \in UserModes :
            NoLoopYet /\ new_User(t, mode)
       \/ SystemSteps
       \/ ShareSteps
       \/ EventSteps

SpecOneLoop == Init /\ [][NextOneLoop]_vars

\* programs that create one loop, of any kind, subscribe, move and drop the
\* subscriptions, and have events delivered meanwhile
NextStorage ==
    /\ ~aborted
    /\ \/ \E t \in Threads : NoLoopYet /\ new_System_lock(t)
       \/ \E t \in Threads, mode \in UserModes :
            NoLoopYet /\ new_User(t, mode)
       \/ SystemSteps
       \/ ShareSteps
       \/ \E s \in SubIds : move_EspSubscription(s)
       \/ \E h \in Handles, e \in Events : post_raw(h, e, "None")
       \/ \E l \in Loops, f \in SubIds \cup {0} : task_dispatch(l, f)

SpecStorage == Init /\ [][NextStorage]_vars

\* programs that create, share and release one loop, of any kind, while other
\* code may delete the default loop under them
NextForeign ==
    /\ ~aborted
    /\ \/ \E t \in Threads : NoLoopYet /\ new_System_lock(t)
       \/ \E t \in Threads, mode \in UserModes :
            NoLoopYet /\ new_User(t, mode)
       \/ SystemSteps
       \/ ShareSteps
       \/ foreign_delete_default

SpecForeign == Init /\ [][NextForeign]_vars

\* programs that create a Background loop, subscribe to source 1 and post
\* payloads of every size to it
NextPayload ==
    /\ ~aborted
    /\ \/ \E t \in Threads : NoLoopYet /\ new_User(t, "Background")
       \/ \E h \in Handles : subscribe_raw(h, 1, ANY_ID)
       \/ \E h \in Handles, p \in Payloads, w \in Waits :
            post_payload(h, p, w)
       \/ \E l \in Loops : task_dispatch_payload(l)

SpecPayload == Init /\ [][NextPayload]_vars

\* programs in which one thread creates two loops with tasks of their own
\* (the default loop and Background loops), subscribes on them and drops
\* subscriptions, while events are posted to them and delivered
NextTwoLoops ==
    /\ ~aborted
    /\ \/ new_System_lock("t1")
       \/ new_System("t1")
       \/ new_User("t1", "Background")
       \/ \E h \in Handles, src \in SubSources, id \in Filters :
            subscribe_raw(h, src, id)
       \/ \E h \in Handles, e \in Events : post_raw(h, e, "None")
       \/ \E l \in Loops : task_dispatch(l, 0)
       \/ \E s \in SubIds : drop_EspSubscription("t1", s)
       \/ drop_EspSubscription_handle("t1")
       \/ drop_EspSubscription_callback("t1")

SpecTwoLoops == Init /\ [][NextTwoLoops]_vars

\* ===================================================================== claims

\* subscription s still holds its Arc: it is alive, or its drop has not yet
\* reached the event_loop_handle field
HoldsArc(s) ==
    \/ subs[s].state = "live"
    \/ \E t \in Threads : th[t].pc = "sdrop_arc" /\ th[t].s = s

\* the EspEventLoop values and EspSubscriptions that reference handle h
Refs(h) ==
    hnd[h].clones + Cardinality({s \in SubIds : subs[s].h = h /\ HoldsArc(s)})

SystemHandles == {h \in Handles : hnd[h].state # "none" /\ hnd[h].mode = "System"}

\* a Singleton is live while any clone or subscription of it exists
LiveSingletons == {h \in SystemHandles : Refs(h) > 0}

\* its drop has begun and has not yet deleted the default loop
DroppingSingletons == {h \in SystemHandles : hnd[h].state = "dropping"}

\* C1: at most one Singleton handle is live (or still being torn down) at any
\* time, under any interleaving of the threads; the default loop has been
\* created successfully at most once more than it has been deleted; and a
\* thread that enters new while a Singleton is live finds the flag set, so it
\* returns the error instead of waiting for the drop.
C1_OneSingleton ==
    /\ Cardinality(LiveSingletons \cup DroppingSingletons) <= 1
    /\ native[DefaultLoop].created - native[DefaultLoop].deleted
         = (IF native[DefaultLoop].exists THEN 1 ELSE 0)
    /\ native[DefaultLoop].created - native[DefaultLoop].deleted
         = Cardinality(LiveSingletons \cup DroppingSingletons)
    /\ \A t \in Threads :
         th[t].pc = "new_locked" /\ LiveSingletons # {} => taken
    /\ last.op = "new_System" /\ last.res = "Ok" => LiveSingletons # {}

\* a second thread holds the lock inside new while a Singleton is live
C1_Witness ==
    \E t \in Threads :
      /\ th[t].pc = "new_locked"
      /\ LiveSingletons # {}
      /\ native[DefaultLoop].created = 1

\* C2: a creation that completes while a Singleton is live returns
\* Err(ESP_ERR_INVALID_STATE) and changes nothing; one that completes after the
\* live one was dropped (no reference left, default loop deleted) is not
\* refused by the flag: it asks the facility and succeeds when the facility
\* creates the loop.
C2_Step(t) ==
    th[t].pc = "new_locked" /\ th'[t].pc = "idle" =>
      /\ LiveSingletons # {} =>
           /\ last'.res = "Err"
           /\ last'.code = ESP_ERR_INVALID_STATE
           /\ ~last'.called
           /\ hnd' = hnd /\ native' = native /\ taken' = taken
      /\ LiveSingletons = {} /\ ~native[DefaultLoop].exists =>
           /\ last'.called
           /\ last'.st # ESP_ERR_INVALID_STATE
           /\ last'.st = ESP_OK =>
                /\ last'.res = "Ok"
                /\ Cardinality(LiveSingletons') = 1
                /\ native'[DefaultLoop].exists
           /\ last'.st # ESP_OK =>
                /\ last'.res = "Err"
                /\ last'.code = last'.st

C2_SecondSingleton == [][\A t \in Threads : C2_Step(t)]_vars

\* a Singleton was created, dropped, and created again
C2_Witness ==
    /\ last.op = "new_System"
    /\ last.res = "Ok"
    /\ native[DefaultLoop].created = 2
    /\ native[DefaultLoop].deleted = 1
    /\ \E h \in SystemHandles : hnd[h].state = "dead"

\* C3: the strong count of a handle is the number of EspEventLoop values and
\* EspSubscriptions that reference it; while that number is positive the
\* native loop exists; once it is zero the loop has been deleted, exactly once
\* (a System handle may first wait for TAKEN's mutex inside the same drop);
\* no loop is deleted twice and no teardown panics.
C3_Handle(h) ==
    LET l == LoopOf(h)
    IN  /\ hnd[h].strong = Refs(h)
        /\ Refs(h) > 0 => hnd[h].state = "live" /\ native[l].exists
        /\ Refs(h) = 0 =>
             \/ hnd[h].state = "dead"
             \/ /\ is_system(hnd[h].mode)
                /\ hnd[h].state = "dropping"
                /\ native[l].exists
                /\ \E t \in Threads : /\ th[t].pc \in {"hdrop_wait", "hdrop_locked"}
                                      /\ th[t].h = h
        /\ ~is_system(hnd[h].mode) =>
             /\ native[l].created = 1
             /\ native[l].deleted = (IF hnd[h].state = "dead" THEN 1 ELSE 0)
             /\ native[l].exists = (hnd[h].state = "live")

C3_DeletedOnce ==
    /\ \A h \in Handles : hnd[h].state # "none" => C3_Handle(h)
    /\ native[DefaultLoop].created = Cardinality(SystemHandles)
    /\ native[DefaultLoop].deleted =
         Cardinality({h \in SystemHandles : hnd[h].state = "dead"})
    /\ ~aborted

\* a loop that was shared by a clone and a subscription, both dropped, the
\* clone first: deleted once
C3_Witness ==
    \E h \in Handles, s \in SubIds :
      /\ hnd[h].state = "dead"
      /\ hnd[h].mode = "Explicit"
      /\ native[h].deleted = 1
      /\ subs[s].h = h
      /\ subs[s].state = "dropped"

\* C10: subscribe returns Ok exactly when the facility registered the handler,
\* and then the new subscription is alive, registered on its loop with its
\* filter, holds one more share of the handle and keeps its callback box;
\* otherwise it returns Err carrying the facility's status and leaves
\* registrations, subscriptions, share counts and callback storage unchanged.
C10_Step ==
    last'.op = "subscribe" =>
      LET s == nextS + 1
      IN  /\ last'.called
          /\ (last'.res = "Ok") = (last'.st = ESP_OK)
          /\ last'.res = "Ok" =>
               /\ nextS' = s
               /\ subs'[s].state = "live"
               /\ s \in storage'
               /\ \E r \in regs' : /\ r.inst = s
                                    /\ r.loop = LoopOf(subs'[s].h)
                                    /\ r.source = subs'[s].source
                                    /\ r.event_id = subs'[s].event_id
               /\ hnd'[subs'[s].h].strong = hnd[subs'[s].h].strong + 1
          /\ last'.res # "Ok" =>
               /\ last'.res = "Err"
               /\ last'.code = last'.st
               /\ regs' = regs
               /\ subs' = subs
               /\ nextS' = nextS
               /\ hnd' = hnd
               /\ storage' = storage

C10_SubscribeOrError == [][C10_Step]_vars

\* a refused subscription on a loop that already carries one
C10_Witness ==
    /\ last.op = "subscribe"
    /\ last.res = "Err"
    /\ last.code = ESP_ERR_NO_MEM
    /\ nextS = 1
    /\ subs[1].state = "live"
    /\ storage = {1}

\* event e passes subscription s's filter (source, event_id)
Matches(s, e) ==
    /\ subs[s].source = e.source
    /\ subs[s].event_id \in {e.event_id, ANY_ID}

\* C4: while a subscription is alive its handle is alive, the native loop
\* exists, its handler is registered there and its callback box is allocated,
\* whatever happened to the EspEventLoop values; and every event the loop
\* takes from its queue that passes the subscription's filter runs its
\* callback (unless a callback panicked in that same dispatch).
C4_Pinned(s) ==
    subs[s].state = "live" =>
      /\ hnd[subs[s].h].state = "live"
      /\ native[LoopOf(subs[s].h)].exists
      /\ \E r \in regs : /\ r.inst = s
                          /\ r.loop = LoopOf(subs[s].h)
                          /\ r.source = subs[s].source
                          /\ r.event_id = subs[s].event_id
      /\ s \in storage

C4_Delivered(l) ==
    /\ native[l].exists
    /\ native'[l].exists
    /\ native[l].queue # <<>>
    /\ native'[l].queue = Tail(native[l].queue)
    => \A s \in SubIds :
         /\ subs[s].state = "live"
         /\ LoopOf(subs[s].h) = l
         /\ Matches(s, Head(native[l].queue))
         => count'[s] = count[s] + 1 \/ aborted'

C4_SubscriptionPins ==
    [][/\ \A s \in SubIds : C4_Pinned(s)
       /\ \A s \in SubIds : C4_Pinned(s)'
       /\ \A l \in Loops : C4_Delivered(l)]_vars

\* the only subscription's callback has just run although no EspEventLoop
\* value of its loop is left
C4_Witness ==
    /\ nextS = 1
    /\ subs[1].state = "live"
    /\ hnd[subs[1].h].clones = 0
    /\ last.op = "dispatch"
    /\ last.called
    /\ count[1] = 1

\* C5: once a subscription's drop has unregistered its handler, and ever
\* after the drop has returned, its callback's counter never changes.
C5_NoCallAfterDrop ==
    [][\A s \in SubIds :
         subs[s].state \in {"dropping", "dropped"} => count'[s] = count[s]]_vars

\* an event that passes a dropped subscription's filter has just been
\* dispatched, and ran no callback
C5_Witness ==
    \E s \in SubIds :
      /\ subs[s].state = "dropped"
      /\ last.op = "dispatch"
      /\ ~last.called
      /\ Matches(s, last.ev)

\* C6: post returns Ok(false) exactly for the status ESP_ERR_TIMEOUT, which
\* the facility gives for a full queue and a bounded wait (zero included) and
\* which leaves the queue as it was; Ok(true) exactly for ESP_OK, which
\* queued the event; and Err carrying the status for every other status,
\* ESP_FAIL included.
C6_Step ==
    last'.op = "post" =>
      /\ last'.called
      /\ (last'.res = "False") = (last'.st = ESP_ERR_TIMEOUT)
      /\ (last'.res = "True") = (last'.st = ESP_OK)
      /\ last'.st \notin {ESP_OK, ESP_ERR_TIMEOUT} =>
           last'.res = "Err" /\ last'.code = last'.st
      /\ last'.st = ESP_ERR_TIMEOUT =>
           \E l \in Loops : native[l].exists /\ Len(native[l].queue) = QueueSize
      /\ last'.st = ESP_OK =>
           \E l \in Loops : /\ native[l].exists
                            /\ Len(native'[l].queue) = Len(native[l].queue) + 1
      /\ last'.st # ESP_OK => native' = native

C6_PostResult == [][C6_Step]_vars

\* a post against a full queue has just returned Ok(false)
C6_Witness ==
    /\ last.op = "post"
    /\ last.res = "False"
    /\ \E l \in Loops : native[l].exists /\ Len(native[l].queue) = QueueSize

\* C7: isr_post returns Ok(false) exactly for ESP_FAIL and Ok(true) exactly
\* for ESP_OK; ESP_ERR_TIMEOUT given to isr_post comes back as
\* Err(ESP_ERR_TIMEOUT), and ESP_FAIL given to post comes back as
\* Err(ESP_FAIL).
C7_IsrPostResult ==
    /\ last.op = "isr_post" =>
         /\ (last.res = "False") = (last.st = ESP_FAIL)
         /\ (last.res = "True") = (last.st = ESP_OK)
         /\ last.st \notin {ESP_OK, ESP_FAIL} =>
              last.res = "Err" /\ last.code = last.st
    /\ last.op = "post" /\ last.st = ESP_FAIL =>
         last.res = "Err" /\ last.code = ESP_FAIL

\* isr_post has just been given the timeout status
C7_Witness ==
    /\ last.op = "isr_post"
    /\ last.st = ESP_ERR_TIMEOUT
    /\ last.res = "Err"
    /\ last.code = ESP_ERR_TIMEOUT

Pumped == {"Explicit", "Pinned"}

\* C8 (as claimed): esp_event_loop_run is only ever executing on an Explicit
\* or Pinned loop, never on a loop that has its own task.
C8_SpinOnlyPumped ==
    \A t \in Threads :
      th[t].pc = "spin" =>
        /\ hnd[th[t].h].mode \in Pumped
        /\ ~native[LoopOf(th[t].h)].task

\* C9: an Explicit or Pinned loop has no task of its own; a callback of one of
\* its subscriptions runs, and an event leaves its queue, only in a step of a
\* thread that is inside spin on that loop, and the callback runs on that
\* thread.
C9_Handle(h) ==
    hnd[h].state = "live" /\ hnd[h].mode \in Pumped =>
      /\ ~native[LoopOf(h)].task
      /\ \/ \E s \in SubIds : subs[s].h = h /\ count'[s] # count[s]
         \/ /\ native'[LoopOf(h)].exists
            /\ Len(native'[LoopOf(h)].queue) < Len(native[LoopOf(h)].queue)
         => \E t \in Threads :
              /\ th[t].pc = "spin"
              /\ th[t].h = h
              /\ th'[t].pc = "spin"
              /\ last'.op = "dispatch"
              /\ last'.on = t

C9_OnlyWhileSpinning == [][\A h \in Handles : C9_Handle(h)]_vars

\* a callback of a pumped loop has just run on a spinning thread while the
\* other thread was idle
C9_Witness ==
    \E h \in Handles, t \in Threads :
      /\ hnd[h].state = "live"
      /\ hnd[h].mode \in Pumped
      /\ last.op = "dispatch"
      /\ last.called
      /\ last.on = t
      /\ th[t].pc = "spin"

\* the addresses of the callback boxes whose heap allocation exists
AllocatedBoxes == {[region |-> "heap", box |-> s, at |-> 0] : s \in storage}

\* C11: every registration in the facility carries as context the address of
\* an allocated callback box, the box of the subscription that registered it,
\* wherever that subscription value has been moved; a box is released only by
\* the drop of its subscription, after the unregister call returned ESP_OK
\* and the registration is gone; a move changes no registration and no box.
C11_Valid ==
    \A r \in regs :
      /\ r.ctx \in AllocatedBoxes
      /\ r.ctx.box = r.inst
      /\ subs[r.inst].state = "live"

C11_Step ==
    /\ \A s \in storage \ storage' :
         /\ subs[s].state = "dropping"
         /\ \A r \in regs : r.inst # s
         /\ \E t \in Threads : th[t].pc = "sdrop_free" /\ th[t].s = s
    /\ \A s \in SubIds :
         subs[s].state = "live" /\ subs'[s].state = "live"
           /\ subs'[s].at # subs[s].at
         => regs' = regs /\ storage' = storage

C11_StorageValid == [][C11_Valid /\ C11_Valid' /\ C11_Step]_vars

\* a moved subscription's callback has just been called
C11_Witness ==
    \E s \in SubIds :
      /\ subs[s].state = "live"
      /\ subs[s].at > 1
      /\ \E r \in regs : r.inst = s
      /\ last.op = "dispatch"
      /\ last.called
      /\ count[s] > 0
      /\ \A o \in SubIds \ {s} : count[o] = 0

\* C12: a live subscription made with event_id -1 is called for every
\* dispatched event of its source, whatever the event's id; one made with a
\* specific id is called exactly for the events with that source and that id;
\* no subscription is called for an event of another source or another id.
C12_Receives(s, e) ==
    /\ subs[s].source = e.source
    /\ subs[s].event_id = -1 \/ subs[s].event_id = e.event_id

C12_Step ==
    last'.op = "dispatch" =>
      \A s \in SubIds :
        subs[s].state = "live" =>
          /\ C12_Receives(s, last'.ev) =>
               count'[s] = count[s] + 1 \/ aborted'
          /\ ~C12_Receives(s, last'.ev) => count'[s] = count[s]

C12_Wildcard == [][C12_Step]_vars

\* an event of id 1 has just been delivered to the wildcard subscription and
\* not to the subscription for id 0
C12_Witness ==
    \E s, o \in SubIds :
      /\ subs[s].state = "live" /\ subs[s].event_id = -1
      /\ subs[o].state = "live" /\ subs[o].event_id = 0
      /\ subs[s].source = 1 /\ subs[o].source = 1
      /\ last.op = "dispatch"
      /\ last.ev = [source |-> 1, event_id |-> 1]
      /\ count[s] = 1
      /\ count[o] = 0

\* an event of another source has just been dispatched and called nothing
C12_OtherSource ==
    \E s \in SubIds :
      /\ subs[s].state = "live" /\ subs[s].event_id = -1
      /\ last.op = "dispatch"
      /\ last.ev.source # subs[s].source
      /\ ~last.called

\* C13: when a callback returns Err during a dispatch, that step ends the
\* process: the callbacks registered after it are not called for the event,
\* neither the facility's registrations nor any handle, subscription or
\* thread is told anything, and no step is ever taken from an aborted state.
C13_Step ==
    /\ ~aborted
    /\ last'.op = "dispatch" /\ last'.res = "Err" =>
         /\ aborted'
         /\ count'[last'.code] = count[last'.code] + 1
         /\ \A s \in SubIds : s > last'.code => count'[s] = count[s]
         /\ regs' = regs /\ subs' = subs /\ hnd' = hnd /\ th' = th
         /\ storage' = storage
    /\ last'.op = "dispatch" /\ last'.res = "Ok" => ~aborted'

C13_CallbackFailureAborts == [][C13_Step]_vars

\* the first of two subscriptions to the same events failed: the process is
\* over and the second was never called
C13_Witness ==
    /\ aborted
    /\ last.op = "dispatch"
    /\ last.res = "Err"
    /\ last.code = 1
    /\ subs[2].state = "live"
    /\ subs[2].event_id = subs[1].event_id
    /\ count[1] = 1
    /\ count[2] = 0

\* the loop subscription s was registered on is still alive
C14_Correct(s) == native[LoopOf(subs[s].h)].exists

\* the default loop was deleted only by the drops of Singleton handles
C14_NoMisuse ==
    native[DefaultLoop].deleted =
      Cardinality({h \in SystemHandles : hnd[h].state = "dead"})

\* C14: a subscription's drop whose unregister call fails panics inside the
\* drop: the process ends, nothing is returned and nothing else is released;
\* that happens only to a subscription whose loop is gone.  While the default
\* loop is deleted by the wrapper only, every live subscription's loop is
\* alive and carries its registration, every drop unregisters with ESP_OK,
\* and no thread is ever in the panic.
C14_Step ==
    /\ \A t \in Threads :
         th[t].pc = "idle" /\ th'[t].pc = "sdrop_panic" =>
           /\ aborted'
           /\ ~C14_Correct(th'[t].s)
           /\ ~C14_NoMisuse
           /\ regs' = regs /\ subs' = subs /\ storage' = storage
           /\ hnd' = hnd /\ native' = native
    /\ \A s \in SubIds :
         subs[s].state = "live" /\ subs'[s].state = "dropping" =>
           /\ C14_Correct(s)
           /\ ~aborted'
           /\ \E r \in regs : r.inst = s
           /\ \A r \in regs' : r.inst # s

C14_CorrectUse ==
    C14_NoMisuse =>
      /\ \A s \in SubIds :
           subs[s].state = "live" =>
             /\ C14_Correct(s)
             /\ \E r \in regs : /\ r.inst = s
                                /\ r.loop = LoopOf(subs[s].h)
                                /\ r.source = subs[s].source
                                /\ r.event_id = subs[s].event_id
      /\ \A t \in Threads : th[t].pc # "sdrop_panic"

C14_UnregisterFailureAborts ==
    [][C14_CorrectUse /\ C14_CorrectUse' /\ C14_Step]_vars

\* two subscriptions of one Singleton: the first was dropped in order, then
\* the default loop was deleted from outside, and the second one's drop
\* panicked
C14_Witness ==
    \E t \in Threads :
      /\ th[t].pc = "sdrop_panic"
      /\ th[t].s = 2
      /\ aborted
      /\ subs[1].state = "dropped"
      /\ subs[2].state = "live"
      /\ 2 \in storage

\* C15: spin returns Ok(()) whenever it returns, also with events left in the
\* queue; returning delivers nothing more and leaves the queue as it is, for
\* the next spin; Ok(false) or an error carrying ESP_ERR_TIMEOUT is returned
\* by post and isr_post only.
C15_Step ==
    /\ last'.op = "spin" =>
         /\ last'.res = "Ok"
         /\ native' = native
         /\ count' = count
         /\ ~aborted'
         /\ \E t \in Threads : th[t].pc = "spin" /\ th'[t].pc = "idle"
    /\ last'.op # "dispatch"
         /\ \/ last'.res = "False"
            \/ last'.st = ESP_ERR_TIMEOUT
            \/ last'.code = ESP_ERR_TIMEOUT
       => last'.op \in {"post", "isr_post"}

C16_Inside(h) ==
    {t \in Threads :
       /\ th[t].pc # "idle"
       /\ \/ th[t].h = h
          \/ th[t].s # 0 /\ subs[th[t].s].h = h}

\* C16: a Pinned loop keeps the thread that created it: only that thread is
\* ever inside spin, or inside the drop of a value or of a subscription of
\* the loop, and every dispatch of the loop, so every callback, runs on it.
C16_Handle(h) ==
    hnd[h].state # "none" /\ hnd[h].mode = "Pinned" =>
      /\ hnd[h].pin \in Threads
      /\ hnd'[h].pin = hnd[h].pin
      /\ C16_Inside(h) \subseteq {hnd[h].pin}
      /\ C16_Inside(h)' \subseteq {hnd[h].pin}
      /\ last'.op = "dispatch" /\ native'[h].queue # native[h].queue =>
           last'.on = hnd[h].pin

C16_PinnedOneThread == [][\A h \in Handles : C16_Handle(h)]_vars

\* a Pinned loop created by t2, with a postbox (a second EspEventLoop value)
\* and a subscription: t2 is spinning and a callback has just run on it
C16_Witness ==
    \E h \in Handles :
      /\ hnd[h].state = "live"
      /\ hnd[h].mode = "Pinned"
      /\ hnd[h].pin = "t2"
      /\ hnd[h].clones = 2
      /\ th["t2"].pc = "spin"
      /\ last.op = "dispatch"
      /\ last.called
      /\ last.on = "t2"

\* an Explicit loop is being spun by both threads at once
C16_PumpedShared ==
    \E h \in Handles :
      /\ hnd[h].mode = "Explicit"
      /\ \A t \in Threads : th[t].pc = "spin" /\ th[t].h = h

\* C17 (as claimed): whenever a callback has read the payload of a delivered
\* event, for a payload of 0, 1, 4, 64 or 4096 bytes, the read succeeded and
\* gave the bytes that were posted.
C17_RoundTrip ==
    last.op = "callback" =>
      /\ Len(last.ev.posted) \in PayloadSizes
      /\ last.res = "Ok"
      /\ last.read = last.ev.posted
      /\ ~aborted

\* what holds instead: payloads of 1, 4, 64 and 4096 bytes are read back as
\* posted; the read of a payload of 0 bytes panics
C17_RoundTripNonEmpty ==
    last.op = "callback" =>
      IF Len(last.ev.posted) # 0
      THEN last.res = "Ok" /\ last.read = last.ev.posted /\ ~aborted
      ELSE last.res = "Panic" /\ aborted

\* a payload of 4096 bytes has been read back
C17_Read4096 ==
    /\ last.op = "callback"
    /\ last.res = "Ok"
    /\ Len(last.read) = 4096
    /\ last.read = Bytes(1, 4096)

\* the EventLoopHandle<System> values that exist: made by new and not yet
\* through their drop
C18_Singletons ==
    {h \in SystemHandles : hnd[h].state \in {"live", "dropping"}}

\* C18: while TAKEN's mutex is free the flag is set exactly when an
\* EventLoopHandle<System> exists.  A new refused by the facility leaves the
\* flag clear; a new refused because the flag is set asks the facility nothing
\* and leaves it set; the flag is set only by a new whose create call returned
\* ESP_OK, and cleared only by the drop, in the step that deleted the default
\* loop, with the mutex held.
C18_Flag == lock = NoThread => (taken <=> C18_Singletons # {})

C18_Step ==
    /\ last'.op = "new_System" /\ last'.called /\ last'.st # ESP_OK =>
         /\ last'.res = "Err"
         /\ ~taken /\ ~taken'
         /\ C18_Singletons' = {}
    /\ last'.op = "new_System" /\ ~last'.called =>
         /\ last'.res = "Err"
         /\ last'.code = ESP_ERR_INVALID_STATE
         /\ taken /\ taken'
         /\ native' = native
    /\ ~taken /\ taken' =>
         /\ last'.op = "new_System"
         /\ last'.st = ESP_OK
         /\ native'[DefaultLoop].exists
    /\ taken /\ ~taken' =>
         /\ lock # NoThread
         /\ native[DefaultLoop].exists
         /\ ~native'[DefaultLoop].exists
         /\ native'[DefaultLoop].deleted = native[DefaultLoop].deleted + 1

C18_TakenIffLive == [][C18_Flag /\ C18_Flag' /\ C18_Step]_vars

\* after a Singleton was created and dropped, the facility has just refused
\* to create the default loop again: the flag is clear
C18_Witness ==
    /\ last.op = "new_System"
    /\ last.called
    /\ last.st = ESP_ERR_NO_MEM
    /\ ~taken
    /\ lock = NoThread
    /\ native[DefaultLoop].deleted = 1
    /\ C18_Singletons = {}

\* C19: every registration is on a loop that exists, and the step that
\* deletes a loop finds no registration on it.  A dropped subscription is
\* unregistered before anything else happens to it; when its drop deletes the
\* loop (it held the last reference) its callback box is still allocated; and
\* the box is released last, after the subscription's share of the handle,
\* when the handle is still shared, or torn down with its loop deleted, or
\* being torn down by another value's drop on another thread.
C19_Order ==
    /\ \A r \in regs : native[r.loop].exists
    /\ \A s \in SubIds :
         subs[s].state \in {"dropping", "dropped"} => \A r \in regs : r.inst # s
    /\ \A s \in SubIds : subs[s].state = "dropping" => s \in storage

C19_Step ==
    /\ \A l \in Loops :
         native[l].exists /\ ~native'[l].exists =>
           /\ \A r \in regs : r.loop # l
           /\ \A t \in Threads :
                th[t].s # 0 /\ th'[t] # th[t] =>
                  th[t].s \in storage /\ th[t].s \in storage'
    /\ \A s \in storage \ storage' :
         /\ ~HoldsArc(s)
         /\ hnd[subs[s].h].strong = Refs(subs[s].h)
         /\ Refs(subs[s].h) = 0 =>
              \/ /\ hnd[subs[s].h].state = "dead"
                 /\ native[LoopOf(subs[s].h)].deleted >= 1
              \/ \E u \in Threads :
                   /\ th[u].pc \in {"hdrop_wait", "hdrop_locked"}
                   /\ th[u].h = subs[s].h
                   /\ th[u].s # s

C19_TeardownOrder == [][C19_Order /\ C19_Order' /\ C19_Step]_vars

\* a subscription that held the last reference is in its drop: it has been
\* unregistered, the loop has been deleted, the callback box is still there
C19_Witness ==
    \E t \in Threads, s \in SubIds :
      /\ th[t].pc = "sdrop_free"
      /\ th[t].s = s
      /\ subs[s].state = "dropping"
      /\ hnd[subs[s].h].state = "dead"
      /\ hnd[subs[s].h].clones = 0
      /\ ~native[LoopOf(subs[s].h)].exists
      /\ s \in storage

\* the loop instance a handle stands for: the default loop for the Singleton,
\* its own loop otherwise
C20_Loop(h) == IF hnd[h].mode = "System" THEN 0 ELSE h

\* C20: every registration is on the loop of the handle it was subscribed
\* through; a post changes the queue of the loop of the handle it was called
\* on and no other; a dispatch takes an event from one loop and calls
\* callbacks subscribed on that loop only; a subscription's drop removes its
\* own registration and no other.
C20_Registered ==
    \A r \in regs : r.loop = C20_Loop(subs[r.inst].h)

C20_Step ==
    /\ last'.op = "subscribe" /\ last'.res = "Ok" =>
         \E r \in regs' \ regs :
           /\ regs' = regs \cup {r}
           /\ r.inst = nextS'
           /\ r.loop = C20_Loop(subs'[nextS'].h)
    /\ last'.op = "post" =>
         /\ \A l \in Loops : l # C20_Loop(last'.h) => native'[l] = native[l]
         /\ last'.st = ESP_OK =>
              Len(native'[C20_Loop(last'.h)].queue) =
                Len(native[C20_Loop(last'.h)].queue) + 1
    /\ last'.op = "dispatch" =>
         \E l \in Loops :
           /\ native[l].queue # <<>>
           /\ native'[l].queue = Tail(native[l].queue)
           /\ \A o \in Loops \ {l} : native'[o] = native[o]
           /\ \A s \in SubIds :
                count'[s] # count[s] => C20_Loop(subs[s].h) = l
    /\ \A s \in SubIds :
         subs[s].state = "live" /\ subs'[s].state = "dropping" =>
           /\ regs' = {r \in regs : r.inst # s}
           /\ regs' # regs

C20_LoopIsolation ==
    [][C20_Registered /\ C20_Registered' /\ C20_Step]_vars

\* two loops, each with a subscription for the same source and id: an event
\* posted to the second loop has just been delivered there and only there
C20_Witness ==
    /\ nextH = 2
    /\ subs[1].state = "live" /\ subs[2].state = "live"
    /\ subs[1].h = 1 /\ subs[2].h = 2
    /\ hnd[1].mode = "System"
    /\ subs[1].source = subs[2].source
    /\ subs[1].event_id = subs[2].event_id
    /\ last.op = "dispatch"
    /\ last.called
    /\ C12_Receives(1, last.ev)
    /\ count[1] = 0
    /\ count[2] = 1

====
